---- MODULE Spec2Model ----
(***************************************************************************)
(* State-machine model of the access-control and user-identity            *)
(* repositories of alvik48/backend-boilerplate (ACLRepository,             *)
(* UserRepository, the Users use cases and the HTTP routes in front of     *)
(* them), over a relational store with the constraints of schema.prisma.   *)
(*                                                                         *)
(* Strings the code only stores or compares (usernames, passwords) are     *)
(* TLA+ strings; strings the code takes apart (API keys, composite keys)   *)
(* are sequences of one-character strings.  A text column of the store     *)
(* holds a record: Raw(s) for a string written verbatim, or the bcrypt     *)
(* output for input s under a salt.                                        *)
(***************************************************************************)
EXTENDS Integers, Sequences, FiniteSets, TLC

VARIABLES
    users,      \* table Users: id -> [username, password, apiKey]
    nextId,     \* autoincrement sequence of Users.id
    acl,        \* table ACL: <<userId, resourceType, resourceId>> -> number of rows
    txOpen,     \* an interactive transaction (db.$transaction) is running
    txUsers,    \* rows of Users written through the transaction client
    txGranted,  \* ACL tuples granted by the transaction's callback and still present
    tokens,     \* JWTs signed so far (the claims object of each)
    issued,     \* per user, the keys updateApiKey returned (the latest two)
    now,        \* Date.now(), in milliseconds
    jwtCache,   \* the NodeCache of verified tokens: token -> [v, t]
    reqs,       \* per request in flight, where its auth hook and handler stand
    calls,      \* per concurrent caller, the repository call it has pending
    last        \* the last call: [op, args, out], args and out.val being records

cacheVars == <<now, jwtCache, reqs>>
vars == <<users, nextId, acl, txOpen, txUsers, txGranted, tokens, issued, cacheVars, calls, last>>

(***************************************************************************)
(* Bounds                                                                  *)
(***************************************************************************)
MaxUsers == 2
MaxResourceId == 2
NumSalts == 2
KeyLen == 1
MaxExtra == 2

Usernames == {"alice", "bob"}
Passwords == {"", "pw1", "pw2"}
Salts == 1..NumSalts
ResourceTypes == {"Project"}
UserIds == 1..(MaxUsers + 1)
ResourceIds == 1..MaxResourceId
AclTuples == UserIds \X ResourceTypes \X ResourceIds

\* SQL NULL in a nullable text column.
NULL == [fmt |-> "null", salt |-> 0, of |-> <<>>]

(***************************************************************************)
(* Outcomes of a call                                                      *)
(***************************************************************************)
\* The value of an outcome is a record: Void, Bool(b), Str(s) or an object.
Void == [void |-> TRUE]
Bool(b) == [bool |-> b]
Str(s) == [string |-> s]
Ret(v) == [kind |-> "return", cls |-> "", val |-> v]
Known(code) == [kind |-> "throw", cls |-> "KnownError", val |-> [code |-> code]]
\* new KnownError(code, message)
KnownError(code, message) ==
    [kind |-> "throw", cls |-> "KnownError", val |-> [code |-> code, message |-> message]]
ErrorCode == {"UserNotFound", "UserCredentialsNotValid", "UserApiTokenNotValid", "AccessDenied"}
Prisma(code) == [kind |-> "throw", cls |-> "PrismaError", val |-> [code |-> code]]
Unclassified(message) == [kind |-> "throw", cls |-> "Error", val |-> [code |-> message]]
Returned(o) == o.kind = "return"
Threw(o, code) == o.kind = "throw" /\ o.val.code = code

(***************************************************************************)
(* ACLRepository                                                           *)
(* The ACL table is a bag of rows, a[t] being the number of rows equal to  *)
(* t; the composite primary key of schema.prisma is checked by create.     *)
(***************************************************************************)
EmptyAcl == [t \in AclTuples |-> 0]

\* db.aCL.create without the @@id check.
grantAccessNoPk(us, a, userId, resourceType, resourceId) ==
    LET t == <<userId, resourceType, resourceId>> IN
    IF userId \notin DOMAIN us
    THEN [out |-> Prisma("P2003"), acl |-> a]
    ELSE [out |-> Ret(Void), acl |-> [a EXCEPT ![t] = @ + 1]]

\* grantAccess as an upsert: no error and no new row for a tuple that exists.
grantAccessUpsert(us, a, userId, resourceType, resourceId) ==
    LET t == <<userId, resourceType, resourceId>> IN
    IF a[t] > 0
    THEN [out |-> Ret(Void), acl |-> a]
    ELSE IF userId \notin DOMAIN us
    THEN [out |-> Prisma("P2003"), acl |-> a]
    ELSE [out |-> Ret(Void), acl |-> [a EXCEPT ![t] = @ + 1]]

\* grantAccess giving the user every resource of the type.
grantAccessAllResources(us, a, userId, resourceType, resourceId) ==
    LET t == <<userId, resourceType, resourceId>> IN
    IF a[t] > 0
    THEN [out |-> Prisma("P2002"), acl |-> a]
    ELSE IF userId \notin DOMAIN us
    THEN [out |-> Prisma("P2003"), acl |-> a]
    ELSE [out |-> Ret(Void),
          acl |-> [u \in DOMAIN a |->
                     IF u[1] = userId /\ u[2] = resourceType /\ a[u] = 0 THEN 1 ELSE a[u]]]

\* db.aCL.create: P2002 on the composite primary key, P2003 on the foreign
\* key to Users.
grantAccess(us, a, userId, resourceType, resourceId) ==
    LET t == <<userId, resourceType, resourceId>> IN
    IF a[t] > 0
    THEN [out |-> Prisma("P2002"), acl |-> a]
    ELSE IF userId \notin DOMAIN us
    THEN [out |-> Prisma("P2003"), acl |-> a]
    ELSE [out |-> Ret(Void), acl |-> [a EXCEPT ![t] = @ + 1]]

\* hasAccess matching on userId only.
hasAccessAnyResource(a, userId, resourceType, resourceId) ==
    LET entity == {t \in DOMAIN a : a[t] > 0 /\ t[1] = userId} IN
    Ret(Bool(entity # {}))

\* hasAccess matching on the resource only.
hasAccessAnyUser(a, userId, resourceType, resourceId) ==
    LET entity == {t \in DOMAIN a : a[t] > 0 /\ t[2] = resourceType /\ t[3] = resourceId} IN
    Ret(Bool(entity # {}))

hasAccess(a, userId, resourceType, resourceId) ==
    LET entity == {t \in DOMAIN a : a[t] > 0 /\ t = <<userId, resourceType, resourceId>>} IN
    Ret(Bool(entity # {}))

\* checkAccess with the condition inverted.
checkAccessInverted(a, userId, resourceType, resourceId) ==
    LET isAccessGranted == hasAccess(a, userId, resourceType, resourceId).val.bool IN
    IF isAccessGranted
    THEN Known("AccessDenied")
    ELSE Ret(Void)

checkAccess(a, userId, resourceType, resourceId) ==
    LET isAccessGranted == hasAccess(a, userId, resourceType, resourceId).val.bool IN
    IF ~isAccessGranted
    THEN Known("AccessDenied")
    ELSE Ret(Void)

\* deleteMany in place of delete: no error on a missing row.
revokeAccessMany(a, userId, resourceType, resourceId) ==
    LET t == <<userId, resourceType, resourceId>> IN
    [out |-> Ret(Void), acl |-> [a EXCEPT ![t] = 0]]

\* db.aCL.delete: P2025 when the row does not exist.
revokeAccess(a, userId, resourceType, resourceId) ==
    LET t == <<userId, resourceType, resourceId>> IN
    IF a[t] = 0
    THEN [out |-> Prisma("P2025"), acl |-> a]
    ELSE [out |-> Ret(Void), acl |-> [a EXCEPT ![t] = @ - 1]]

(***************************************************************************)
(* Strings taken apart by the code                                         *)
(***************************************************************************)
Digits == <<"0", "1", "2", "3", "4", "5", "6", "7", "8", "9">>
IsDigit(c) == \E i \in 1..10 : Digits[i] = c
DigitVal(c) == (CHOOSE i \in 1..10 : Digits[i] = c) - 1
NaN == -1

\* String.prototype.split with a one-character separator.
RECURSIVE splitAcc(_, _, _)
splitAcc(s, sep, cur) ==
    IF s = <<>> THEN <<cur>>
    ELSE IF Head(s) = sep
         THEN <<cur>> \o splitAcc(Tail(s), sep, <<>>)
         ELSE splitAcc(Tail(s), sep, Append(cur, Head(s)))

split(s, sep) == splitAcc(s, sep, <<>>)

\* Number(string) on strings of the model's alphabet: "" is 0, a run of
\* decimal digits is its value, anything else is NaN.
RECURSIVE decimal(_, _)
decimal(s, acc) ==
    IF s = <<>> THEN acc ELSE decimal(Tail(s), acc * 10 + DigitVal(Head(s)))

Number(s) ==
    IF \A i \in 1..Len(s) : IsDigit(s[i]) THEN decimal(s, 0) ELSE NaN

\* Template literal `${id}` of a non-negative integer.
RECURSIVE toString(_)
toString(n) ==
    IF n < 10 THEN <<Digits[n + 1]>> ELSE toString(n \div 10) \o <<Digits[(n % 10) + 1]>>

(***************************************************************************)
(* bcrypt                                                                  *)
(***************************************************************************)
Raw(s) == [fmt |-> "raw", salt |-> 0, of |-> s]

\* bcrypt.hash(input, 10): a fresh salt per call, stored inside the output.
encrypt(input, salt) == [fmt |-> "bcrypt", salt |-> salt, of |-> input]

\* bcrypt.compare(data, hash): false for a string that is not bcrypt output.
bcryptCompare(data, hash) == hash.fmt = "bcrypt" /\ hash.of = data

(***************************************************************************)
(* UserRepository                                                          *)
(***************************************************************************)
SafeView(id, row) == [id |-> id, username |-> row.username]
FullView(id, row) ==
    [id |-> id, username |-> row.username, password |-> row.password, apiKey |-> row.apiKey]
HasField(r, f) == f \in DOMAIN r

UsernameTaken(us, username, exceptId) ==
    \E i \in DOMAIN us : i # exceptId /\ us[i].username = username
ApiKeyTaken(us, column, exceptId) ==
    \E i \in DOMAIN us : i # exceptId /\ us[i].apiKey = column

\* tx.user.findUnique({where}); where is [field, value].
findUnique(us, where) ==
    IF where.field = "id"
    THEN {i \in DOMAIN us : i = where.value}
    ELSE {i \in DOMAIN us : us[i].username = where.value}

\* An optional boolean argument: "omitted" is undefined at the call site.
SafeArgs == {"omitted", "true", "false"}
\* Default parameter `safe: T = true as T`.
DefaultTrue(safe) == IF safe = "omitted" THEN "true" ELSE safe

\* getUnique without the omit clause.
getUniqueFull(us, where, safe) ==
    LET found == findUnique(us, where) IN
    IF found = {} THEN Known("UserNotFound")
    ELSE LET id == CHOOSE i \in found : TRUE IN Ret(FullView(id, us[id]))

\* getUnique returning nothing, not throwing, when no row matches.
getUniqueOrNull(us, where, safe) ==
    LET found == findUnique(us, where) IN
    IF found = {} THEN Ret(Void)
    ELSE LET id == CHOOSE i \in found : TRUE IN
         Ret(IF DefaultTrue(safe) = "true" THEN SafeView(id, us[id]) ELSE FullView(id, us[id]))

getUnique(us, where, safe) ==
    LET found == findUnique(us, where) IN
    IF found = {} THEN Known("UserNotFound")
    ELSE LET id == CHOOSE i \in found : TRUE IN
         Ret(IF DefaultTrue(safe) = "true" THEN SafeView(id, us[id]) ELSE FullView(id, us[id]))

getById(us, id, safe) == getUnique(us, [field |-> "id", value |-> id], DefaultTrue(safe))

getByUsername(us, username, safe) ==
    getUnique(us, [field |-> "username", value |-> username], DefaultTrue(safe))

\* The row db.user.create writes for {...data, password}: apiKey is absent
\* from the declared type of data but is spread like any other field.
NewRow(data, encryptedPassword) ==
    [username |-> data.username, password |-> encryptedPassword,
     apiKey |-> IF HasField(data, "apiKey") THEN Raw(data.apiKey) ELSE NULL]

\* create on a table without @@unique([username]).
createNoUnique(us, nid, data, salt) ==
    LET encryptedPassword == encrypt(data.password, salt)
        row == NewRow(data, encryptedPassword)
    IN [out |-> Ret(SafeView(nid, row)),
        users |-> [i \in DOMAIN us \cup {nid} |-> IF i = nid THEN row ELSE us[i]],
        nextId |-> nid + 1]

create(us, nid, data, salt) ==
    LET encryptedPassword == encrypt(data.password, salt)
        row == NewRow(data, encryptedPassword)
    IN
    IF UsernameTaken(us, data.username, 0) \/ (row.apiKey # NULL /\ ApiKeyTaken(us, row.apiKey, 0))
    THEN [out |-> Prisma("P2002"), users |-> us, nextId |-> nid]
    ELSE [out |-> Ret(SafeView(nid, row)),
          users |-> [i \in DOMAIN us \cup {nid} |-> IF i = nid THEN row ELSE us[i]],
          nextId |-> nid + 1]

\* data is a record with any of the fields username, password, apiKey; all
\* but a non-empty password are written as given.
update(us, id, data, salt) ==
    LET password ==
            IF HasField(data, "password")
            THEN IF data.password # ""
                 THEN encrypt(data.password, salt)
                 ELSE Raw(data.password)
            ELSE IF id \in DOMAIN us THEN us[id].password ELSE NULL
        username ==
            IF HasField(data, "username") THEN data.username
            ELSE IF id \in DOMAIN us THEN us[id].username ELSE ""
        apiKey ==
            IF HasField(data, "apiKey") THEN Raw(data.apiKey)
            ELSE IF id \in DOMAIN us THEN us[id].apiKey ELSE NULL
    IN
    IF id \notin DOMAIN us THEN [out |-> Prisma("P2025"), users |-> us]
    ELSE IF UsernameTaken(us, username, id) \/ (apiKey # NULL /\ ApiKeyTaken(us, apiKey, id))
    THEN [out |-> Prisma("P2002"), users |-> us]
    ELSE LET row == [username |-> username, password |-> password, apiKey |-> apiKey] IN
         [out |-> Ret(SafeView(id, row)), users |-> [us EXCEPT ![id] = row]]

createApiKey(key, salt) == [apiKey |-> key, encryptedApiKey |-> encrypt(key, salt)]

\* updateApiKey writing the key only when the user has none.
updateApiKeyKeepOld(us, id, key, salt) ==
    LET k == createApiKey(key, salt) IN
    IF id \notin DOMAIN us THEN [out |-> Prisma("P2025"), users |-> us]
    ELSE IF us[id].apiKey # NULL THEN [out |-> Ret(Str(k.apiKey)), users |-> us]
    ELSE [out |-> Ret(Str(k.apiKey)), users |-> [us EXCEPT ![id].apiKey = k.encryptedApiKey]]

\* updateApiKey writing the key it returns, not its hash.
updateApiKeyPlain(us, id, key, salt) ==
    LET k == createApiKey(key, salt) IN
    IF id \notin DOMAIN us THEN [out |-> Prisma("P2025"), users |-> us]
    ELSE IF ApiKeyTaken(us, Raw(k.apiKey), id) THEN [out |-> Prisma("P2002"), users |-> us]
    ELSE [out |-> Ret(Str(k.apiKey)), users |-> [us EXCEPT ![id].apiKey = Raw(k.apiKey)]]

updateApiKey(us, id, key, salt) ==
    LET k == createApiKey(key, salt) IN
    IF id \notin DOMAIN us THEN [out |-> Prisma("P2025"), users |-> us]
    ELSE IF ApiKeyTaken(us, k.encryptedApiKey, id) THEN [out |-> Prisma("P2002"), users |-> us]
    ELSE [out |-> Ret(Str(k.apiKey)), users |-> [us EXCEPT ![id].apiKey = k.encryptedApiKey]]

\* getByCredentials returning the fetched record as it is.
getByCredentialsFull(us, username, password) ==
    LET r == getByUsername(us, username, "false") IN
    IF ~Returned(r) THEN r
    ELSE IF ~bcryptCompare(password, r.val.password)
         THEN Known("UserCredentialsNotValid") ELSE r

\* getByCredentials without the comparison.
getByCredentialsNoCheck(us, username, password) ==
    LET r == getByUsername(us, username, "false") IN
    IF ~Returned(r) THEN r
    ELSE Ret([id |-> r.val.id, username |-> r.val.username])

getByCredentials(us, username, password) ==
    LET r == getByUsername(us, username, "false") IN
    IF ~Returned(r) THEN r
    ELSE LET encryptedPassword == r.val.password
             user == [id |-> r.val.id, username |-> r.val.username]
             areCredentialsValid == bcryptCompare(password, encryptedPassword)
         IN IF ~areCredentialsValid THEN Known("UserCredentialsNotValid") ELSE Ret(user)

\* isApiCompositeKeyValid without the test of user.apiKey.
isApiCompositeKeyValidNoKeyCheck(us, compositeKey) ==
    LET parts == split(compositeKey, ":")
        userId == parts[1]
        id == Number(userId)
    IN
    IF id = NaN THEN Prisma("Validation")
    ELSE IF id \notin DOMAIN us THEN Known("UserNotFound")
    ELSE IF Len(parts) < 2 THEN Unclassified("data and hash arguments required")
    ELSE Ret(Bool(bcryptCompare(parts[2], us[id].apiKey)))

isApiCompositeKeyValid(us, compositeKey) ==
    LET parts == split(compositeKey, ":")
        userId == parts[1]
        id == Number(userId)
    IN
    IF id = NaN THEN Prisma("Validation")
    ELSE IF id \notin DOMAIN us THEN Known("UserNotFound")
    ELSE IF us[id].apiKey = NULL THEN Known("AccessDenied")
    ELSE IF Len(parts) < 2 THEN Unclassified("data and hash arguments required")
    ELSE Ret(Bool(bcryptCompare(parts[2], us[id].apiKey)))

\* validateCompositeApiKey turning every failure into UserApiTokenNotValid.
validateCompositeApiKeyMasking(us, compositeKey) ==
    LET isValid == isApiCompositeKeyValid(us, compositeKey) IN
    IF Returned(isValid) /\ isValid.val.bool THEN Ret(Void) ELSE Known("UserApiTokenNotValid")

validateCompositeApiKey(us, compositeKey) ==
    LET isValid == isApiCompositeKeyValid(us, compositeKey) IN
    IF ~Returned(isValid) THEN isValid
    ELSE IF ~isValid.val.bool THEN Known("UserApiTokenNotValid") ELSE Ret(Void)

(***************************************************************************)
(* UserRepository with a transaction client                                *)
(* Every method has a last parameter `tx: TxClient = db`.  c holds the     *)
(* user table each client sees, c.db and c.tx; tx names the client passed, *)
(* "db" when the argument is left out.                                     *)
(***************************************************************************)
Handles == {"db", "tx"}

createTx(c, nid, data, salt, tx) == create(c[tx], nid, data, salt)

getUniqueTx(c, where, safe, tx) == getUnique(c[tx], where, safe)

getByIdTx(c, id, safe, tx) ==
    getUniqueTx(c, [field |-> "id", value |-> id], DefaultTrue(safe), tx)

\* getByUsername leaving tx out of its call of getUnique.
getByUsernameTxGlobal(c, username, safe, tx) ==
    getUniqueTx(c, [field |-> "username", value |-> username], DefaultTrue(safe), "db")

getByUsernameTx(c, username, safe, tx) ==
    getUniqueTx(c, [field |-> "username", value |-> username], DefaultTrue(safe), tx)

updateTx(c, id, data, salt, tx) == update(c[tx], id, data, salt)

updateApiKeyTx(c, id, key, salt, tx) == updateApiKey(c[tx], id, key, salt)

getByCredentialsTx(c, username, password, tx) ==
    LET r == getByUsernameTx(c, username, "false", tx) IN
    IF ~Returned(r) THEN r
    ELSE LET encryptedPassword == r.val.password
             user == [id |-> r.val.id, username |-> r.val.username]
             areCredentialsValid == bcryptCompare(password, encryptedPassword)
         IN IF ~areCredentialsValid THEN Known("UserCredentialsNotValid") ELSE Ret(user)

isApiCompositeKeyValidTx(c, compositeKey, tx) == isApiCompositeKeyValid(c[tx], compositeKey)

validateCompositeApiKeyTx(c, compositeKey, tx) ==
    LET isValid == isApiCompositeKeyValidTx(c, compositeKey, tx) IN
    IF ~Returned(isValid) THEN isValid
    ELSE IF ~isValid.val.bool THEN Known("UserApiTokenNotValid") ELSE Ret(Void)

(***************************************************************************)
(* Token cache (node-cache) and the bearer-auth hook                       *)
(* Time is in milliseconds, as Date.now() gives it.  A token is the record *)
(* [claims, signed]; iat is in seconds.                                    *)
(***************************************************************************)
\* AUTH_TTL is 24 hours in the source, AuthTtlSeconds seconds here.
AuthTtlSeconds == 2
MaxSeconds == 4
\* Milliseconds in a second (decoded.iat * 1000).
Second == 1000
AUTH_TTL == AuthTtlSeconds * Second
\* Two requests are served at a time.
Requests == {"r1", "r2"}
\* The seconds at which tokens were signed.
Iats == {0, 1}

\* node-cache counts ttl in seconds and livetimes in milliseconds.
ttlMultiplicator == 1000

EmptyCache == [k \in {} |-> 0]

\* _check: an entry is dead once its livetime, unless 0, is in the past.
check(entry, t) == ~(entry.t # 0 /\ entry.t < t)

\* The cache after a lookup of key: a dead entry found is deleted.
checked(c, key, t) ==
    IF key \in DOMAIN c /\ ~check(c[key], t)
    THEN [k \in DOMAIN c \ {key} |-> c[k]]
    ELSE c

has(c, key, t) == key \in DOMAIN c /\ check(c[key], t)

\* get: the stored value, or undefined (no value) for a miss.
get(c, key, t) == IF has(c, key, t) THEN {c[key].v} ELSE {}

\* _wrap: ttl 0 means no expiry.
wrap(value, ttl, t) ==
    [v |-> value, t |-> IF ttl = 0 THEN 0 ELSE t + ttl * ttlMultiplicator]

set(c, key, value, ttl, t) ==
    [k \in DOMAIN c \cup {key} |-> IF k = key THEN wrap(value, ttl, t) ELSE c[k]]

\* createSigner({key})(data) at a time of iat seconds.
SignedAt(user, iat) ==
    [claims |-> [id |-> user.id, username |-> user.username, iat |-> iat], signed |-> TRUE]
\* A token not signed with API_JWT_SECRET.
Forged(user, iat) ==
    [claims |-> [id |-> user.id, username |-> user.username, iat |-> iat], signed |-> FALSE]
NoToken == Forged([id |-> 0, username |-> ""], 0)

\* createVerifier({key})(token)
decoder(token) ==
    IF token.signed THEN Ret(token.claims) ELSE Unclassified("The token signature is invalid.")

\* options.auth after the await, without the max-age test.
authVerifyNoMaxAge(c, token, t0, t) ==
    LET decoded == decoder(token) IN
    IF ~Returned(decoded) THEN [out |-> Ret(Bool(FALSE)), cache |-> c]
    ELSE LET createdAt == decoded.val.iat * Second
             expiresAt == createdAt + AUTH_TTL
             expiresIn == expiresAt - t0
         IN [out |-> Ret(Bool(TRUE)), cache |-> set(c, token, decoded.val, expiresIn, t)]

\* options.auth after the await: t0 is the Date.now() the call read before
\* it, t the time at which it resumes.
authVerify(c, token, t0, t) ==
    LET decoded == decoder(token) IN
    IF ~Returned(decoded) THEN [out |-> Ret(Bool(FALSE)), cache |-> c]
    ELSE LET createdAt == decoded.val.iat * Second
             expiresAt == createdAt + AUTH_TTL
             expiresIn == expiresAt - t0
         IN IF expiresIn < 0
            THEN [out |-> Ret(Bool(FALSE)), cache |-> c]
            ELSE [out |-> Ret(Bool(TRUE)), cache |-> set(c, token, decoded.val, expiresIn, t)]

\* parseUser and the AuthSpec routeHandler builds from it.
parseUser(c, token, t) == get(c, token, t)
AuthSpec(user) ==
    [isAuthorized |-> user # {},
     userId |-> IF user # {} THEN (CHOOSE u \in user : TRUE).id ELSE 0]

\* A request on a route with preHandler: fastify.verifyBearerAuth ends with
\* 401 when auth returned false and else with routeHandler building the
\* AuthSpec from the cache.
Unauthorized == [auth |-> FALSE, isAuthorized |-> FALSE, userId |-> 0]
routeHandler(c, token, t) ==
    LET auth == AuthSpec(parseUser(c, token, t)) IN
    [auth |-> TRUE, isAuthorized |-> auth.isAuthorized, userId |-> auth.userId]

\* The request served without interruption at time t.
request(c, token, t) ==
    IF has(c, token, t)
    THEN routeHandler(c, token, t)
    ELSE LET r == authVerify(checked(c, token, t), token, t, t) IN
         IF r.out.val.bool THEN routeHandler(r.cache, token, t) ELSE Unauthorized

\* Where a request stands: idle, or verifying (auth is at its await).
Idle == [pc |-> "idle", token |-> NoToken, t0 |-> 0]

(***************************************************************************)
(* State machine                                                           *)
(***************************************************************************)
EmptyTable == [i \in {} |-> 0]
NoArgs == [none |-> TRUE]
NoCall == [op |-> "none", args |-> NoArgs, out |-> Ret(Void)]
Call(op, args, out) == [op |-> op, args |-> args, out |-> out]

\* Two callers use the repositories at the same time.  A call is pending
\* from its invocation ("called") to the moment its statement has run in
\* the store ("settled"), and is handed back when its promise resolves.
\* race tells that the same call of the other caller was pending, not yet
\* run, when this one was invoked, and whether the row they name was in
\* the store at that moment ("absent", "present"); it is "none" otherwise.
Callers == {"c1", "c2"}
Other(c) == CHOOSE d \in Callers : d # c
NoPending ==
    [pc |-> "idle", op |-> "none", args |-> NoArgs, local |-> NoArgs,
     race |-> "none", out |-> Ret(Void)]

Init ==
    /\ users = EmptyTable
    /\ nextId = 1
    /\ acl = EmptyAcl
    /\ txOpen = FALSE
    /\ txUsers = EmptyTable
    /\ txGranted = {}
    /\ tokens = {}
    /\ issued = EmptyTable
    /\ now = 0
    /\ jwtCache = EmptyCache
    /\ reqs = [r \in Requests |-> Idle]
    /\ calls = [c \in Callers |-> NoPending]
    /\ last = NoCall

\* What a statement issued through the transaction client sees: committed
\* rows overlaid with the transaction's own writes.
TxView == [i \in DOMAIN users \cup DOMAIN txUsers |->
              IF i \in DOMAIN txUsers THEN txUsers[i] ELSE users[i]]

\* A username inserted by the open transaction is locked until it ends.
LockedByTx(username) == txOpen /\ UsernameTaken(txUsers, username, 0)

\* UserRepository.create(data) on the global client; salt is the salt bcrypt
\* draws for this call.
Create(data, salt) ==
    /\ nextId <= MaxUsers
    /\ ~LockedByTx(data.username)
    /\ LET r == create(users, nextId, data, salt) IN
       /\ users' = r.users
       /\ nextId' = r.nextId
       /\ last' = Call("create", [data |-> data], r.out)
    /\ UNCHANGED <<acl, txOpen, txUsers, txGranted, tokens, issued, cacheVars, calls>>

GetById(id, safe) ==
    /\ last' = Call("getById", [id |-> id, safe |-> safe], getById(users, id, safe))
    /\ UNCHANGED <<users, nextId, acl, txOpen, txUsers, txGranted, tokens, issued, cacheVars, calls>>

GetByUsername(username, safe) ==
    /\ last' = Call("getByUsername", [username |-> username, safe |-> safe], getByUsername(users, username, safe))
    /\ UNCHANGED <<users, nextId, acl, txOpen, txUsers, txGranted, tokens, issued, cacheVars, calls>>

Update(id, data, salt) ==
    /\ HasField(data, "username") => ~LockedByTx(data.username)
    /\ LET r == update(users, id, data, salt) IN
       /\ users' = r.users
       /\ last' = Call("update", [id |-> id, data |-> data], r.out)
    /\ UNCHANGED <<nextId, acl, txOpen, txUsers, txGranted, tokens, issued, cacheVars, calls>>

\* The keys returned for a user: the one before the last, and the last.
Remember(keys, key) ==
    IF keys = <<>> THEN <<key>> ELSE <<keys[Len(keys)], key>>

\* key is the hex string randomBytes yields for this call.
UpdateApiKey(id, key, salt) ==
    /\ LET r == updateApiKey(users, id, key, salt) IN
       /\ users' = r.users
       /\ issued' = IF Returned(r.out)
                     THEN [i \in DOMAIN issued \cup {id} |->
                              IF i = id
                              THEN Remember(IF id \in DOMAIN issued THEN issued[id] ELSE <<>>, key)
                              ELSE issued[i]]
                     ELSE issued
       /\ last' = Call("updateApiKey", [id |-> id], r.out)
    /\ UNCHANGED <<nextId, acl, txOpen, txUsers, txGranted, tokens, cacheVars, calls>>

GetByCredentials(username, password) ==
    /\ last' = Call("getByCredentials", [username |-> username, password |-> password],
                    getByCredentials(users, username, password))
    /\ UNCHANGED <<users, nextId, acl, txOpen, txUsers, txGranted, tokens, issued, cacheVars, calls>>

IsApiCompositeKeyValid(compositeKey) ==
    /\ last' = Call("isApiCompositeKeyValid", [compositeKey |-> compositeKey],
                    isApiCompositeKeyValid(users, compositeKey))
    /\ UNCHANGED <<users, nextId, acl, txOpen, txUsers, txGranted, tokens, issued, cacheVars, calls>>

ValidateCompositeApiKey(compositeKey) ==
    /\ last' = Call("validateCompositeApiKey", [compositeKey |-> compositeKey],
                    validateCompositeApiKey(users, compositeKey))
    /\ UNCHANGED <<users, nextId, acl, txOpen, txUsers, txGranted, tokens, issued, cacheVars, calls>>

\* ACLRepository.grantAccess; inTx: the caller is the callback of the open
\* transaction.  The method has no transaction parameter and uses db.
GrantAccess(userId, resourceType, resourceId, inTx) ==
    /\ inTx => txOpen
    /\ LET r == grantAccess(users, acl, userId, resourceType, resourceId)
           t == <<userId, resourceType, resourceId>> IN
       /\ acl' = r.acl
       /\ txGranted' = IF inTx /\ Returned(r.out) THEN txGranted \cup {t} ELSE txGranted
       /\ last' = Call("grantAccess", [tuple |-> t], r.out)
    /\ UNCHANGED <<users, nextId, txOpen, txUsers, tokens, issued, cacheVars, calls>>

HasAccess(userId, resourceType, resourceId) ==
    /\ last' = Call("hasAccess", [tuple |-> <<userId, resourceType, resourceId>>],
                    hasAccess(acl, userId, resourceType, resourceId))
    /\ UNCHANGED <<users, nextId, acl, txOpen, txUsers, txGranted, tokens, issued, cacheVars, calls>>

CheckAccess(userId, resourceType, resourceId) ==
    /\ last' = Call("checkAccess", [tuple |-> <<userId, resourceType, resourceId>>],
                    checkAccess(acl, userId, resourceType, resourceId))
    /\ UNCHANGED <<users, nextId, acl, txOpen, txUsers, txGranted, tokens, issued, cacheVars, calls>>

RevokeAccess(userId, resourceType, resourceId) ==
    /\ LET r == revokeAccess(acl, userId, resourceType, resourceId)
           t == <<userId, resourceType, resourceId>> IN
       /\ acl' = r.acl
       /\ txGranted' = IF Returned(r.out) THEN txGranted \ {t} ELSE txGranted
       /\ last' = Call("revokeAccess", [tuple |-> t], r.out)
    /\ UNCHANGED <<users, nextId, txOpen, txUsers, tokens, issued, cacheVars, calls>>

\* db.$transaction(async (tx) => ...): the callback starts.
TxBegin ==
    /\ ~txOpen
    /\ txOpen' = TRUE
    /\ txUsers' = EmptyTable
    /\ txGranted' = {}
    /\ last' = Call("begin", NoArgs, Ret(Void))
    /\ UNCHANGED <<users, nextId, acl, tokens, issued, cacheVars, calls>>

\* UserRepository.create(data, tx) inside the callback.  A failed statement
\* rejects the callback and the transaction rolls back.
TxCreate(data, salt) ==
    /\ txOpen
    /\ nextId <= MaxUsers
    /\ LET r == create(TxView, nextId, data, salt) IN
       /\ nextId' = r.nextId
       /\ IF Returned(r.out)
          THEN /\ txUsers' = [i \in DOMAIN txUsers \cup {nextId} |-> r.users[i]]
               /\ txOpen' = TRUE
               /\ txGranted' = txGranted
          ELSE /\ txUsers' = EmptyTable
               /\ txOpen' = FALSE
               /\ txGranted' = {}
       /\ last' = Call("txCreate", [data |-> data], r.out)
    /\ UNCHANGED <<users, acl, tokens, issued, cacheVars, calls>>

\* The callback resolves: the transaction's writes become visible.
TxCommit ==
    /\ txOpen
    /\ users' = TxView
    /\ txOpen' = FALSE
    /\ txUsers' = EmptyTable
    /\ txGranted' = {}
    /\ last' = Call("commit", NoArgs, Ret(Void))
    /\ UNCHANGED <<nextId, acl, tokens, issued, cacheVars, calls>>

\* The callback rejects: the transaction's writes are discarded.
TxRollback ==
    /\ txOpen
    /\ txOpen' = FALSE
    /\ txUsers' = EmptyTable
    /\ txGranted' = {}
    /\ last' = Call("rollback", NoArgs, Ret(Void))
    /\ UNCHANGED <<users, nextId, acl, tokens, issued, cacheVars, calls>>

\* The user table each client sees.
Clients == [db |-> users, tx |-> TxView]

\* The effect of a UserRepository call made with client tx that ended with
\* out and left the table the client sees as table: a call on db commits on
\* its own; a call on tx writes into the transaction, and its failure
\* rejects the callback, which rolls the transaction back.
Through(tx, op, args, out, table) ==
    /\ tx = "tx" => txOpen
    /\ IF tx = "db"
       THEN /\ users' = table
            /\ UNCHANGED <<txOpen, txUsers, txGranted>>
       ELSE /\ users' = users
            /\ IF Returned(out)
               THEN /\ txUsers' =
                         [i \in {j \in DOMAIN table :
                                    \/ j \in DOMAIN txUsers
                                    \/ j \notin DOMAIN users
                                    \/ table[j] # users[j]} |-> table[i]]
                    /\ UNCHANGED <<txOpen, txGranted>>
               ELSE /\ txUsers' = EmptyTable
                    /\ txOpen' = FALSE
                    /\ txGranted' = {}
    /\ last' = Call(op, args, out)
    /\ UNCHANGED <<acl, tokens, cacheVars, calls>>

\* A row written by the open transaction is locked until it ends.
RowLockedByTx(id) == txOpen /\ id \in DOMAIN txUsers

CreateIn(data, salt, tx) ==
    /\ nextId <= MaxUsers
    /\ tx = "db" => ~LockedByTx(data.username)
    /\ LET r == createTx(Clients, nextId, data, salt, tx) IN
       /\ nextId' = r.nextId
       /\ Through(tx, "create", [data |-> data, tx |-> tx], r.out, r.users)
    /\ UNCHANGED issued

GetByIdIn(id, safe, tx) ==
    /\ Through(tx, "getById", [id |-> id, safe |-> safe, tx |-> tx],
               getByIdTx(Clients, id, safe, tx), Clients[tx])
    /\ UNCHANGED <<nextId, issued>>

GetByUsernameIn(username, safe, tx) ==
    /\ Through(tx, "getByUsername", [username |-> username, safe |-> safe, tx |-> tx],
               getByUsernameTx(Clients, username, safe, tx), Clients[tx])
    /\ UNCHANGED <<nextId, issued>>

UpdateIn(id, data, salt, tx) ==
    /\ tx = "db" => ~RowLockedByTx(id)
    /\ LET r == updateTx(Clients, id, data, salt, tx) IN
       Through(tx, "update", [id |-> id, data |-> data, tx |-> tx], r.out, r.users)
    /\ UNCHANGED <<nextId, issued>>

UpdateApiKeyIn(id, key, salt, tx) ==
    /\ tx = "db" => ~RowLockedByTx(id)
    /\ LET r == updateApiKeyTx(Clients, id, key, salt, tx) IN
       /\ Through(tx, "updateApiKey", [id |-> id, tx |-> tx], r.out, r.users)
       /\ issued' = IF Returned(r.out)
                     THEN [i \in DOMAIN issued \cup {id} |->
                              IF i = id
                              THEN Remember(IF id \in DOMAIN issued THEN issued[id] ELSE <<>>, key)
                              ELSE issued[i]]
                     ELSE issued
    /\ UNCHANGED nextId

GetByCredentialsIn(username, password, tx) ==
    /\ Through(tx, "getByCredentials", [username |-> username, password |-> password, tx |-> tx],
               getByCredentialsTx(Clients, username, password, tx), Clients[tx])
    /\ UNCHANGED <<nextId, issued>>

IsApiCompositeKeyValidIn(compositeKey, tx) ==
    /\ Through(tx, "isApiCompositeKeyValid", [compositeKey |-> compositeKey, tx |-> tx],
               isApiCompositeKeyValidTx(Clients, compositeKey, tx), Clients[tx])
    /\ UNCHANGED <<nextId, issued>>

ValidateCompositeApiKeyIn(compositeKey, tx) ==
    /\ Through(tx, "validateCompositeApiKey", [compositeKey |-> compositeKey, tx |-> tx],
               validateCompositeApiKeyTx(Clients, compositeKey, tx), Clients[tx])
    /\ UNCHANGED <<nextId, issued>>

AclCreateInputs == [username : Usernames, password : {"pw1"}]

\* The repository called directly, every call on the global client.
NextAcl ==
    \/ \E d \in AclCreateInputs : Create(d, 1)
    \/ \E t \in AclTuples : GrantAccess(t[1], t[2], t[3], FALSE)
    \/ \E t \in AclTuples : HasAccess(t[1], t[2], t[3])
    \/ \E t \in AclTuples : CheckAccess(t[1], t[2], t[3])
    \/ \E t \in AclTuples : RevokeAccess(t[1], t[2], t[3])

SpecAcl == Init /\ [][NextAcl]_vars

\* The repository called from the callback of an interactive transaction
\* (create through tx, then grant access) next to calls outside it.
TxTuples == {t \in AclTuples : t[3] = 1}

NextAclTx ==
    \/ \E d \in AclCreateInputs : Create(d, 1)
    \/ TxBegin
    \/ \E d \in AclCreateInputs : TxCreate(d, 1)
    \/ \E t \in TxTuples, inTx \in BOOLEAN : GrantAccess(t[1], t[2], t[3], inTx)
    \/ \E t \in TxTuples : HasAccess(t[1], t[2], t[3])
    \/ \E t \in TxTuples : RevokeAccess(t[1], t[2], t[3])
    \/ TxCommit
    \/ TxRollback

SpecAclTx == Init /\ [][NextAclTx]_vars

(***************************************************************************)
(* Access control: properties                                              *)
(***************************************************************************)
Succeeded(c, op) == c.op = op /\ Returned(c.out)

\* C1: right after a successful grantAccess on a tuple, hasAccess on that
\* tuple returns true; right after a successful revokeAccess on it (which
\* needs an earlier grant), hasAccess on it returns false.
C1_GrantThenRevoke ==
    /\ Succeeded(last, "grantAccess") =>
           hasAccess(acl, last.args.tuple[1], last.args.tuple[2], last.args.tuple[3]) = Ret(Bool(TRUE))
    /\ Succeeded(last, "revokeAccess") =>
           hasAccess(acl, last.args.tuple[1], last.args.tuple[2], last.args.tuple[3]) = Ret(Bool(FALSE))

C1_Witness ==
    /\ Succeeded(last, "revokeAccess")
    /\ \E t \in AclTuples : acl[t] > 0

\* C2: a grantAccess on a tuple that is already in the ACL fails with the
\* unique-constraint error P2002, leaves exactly one row for the tuple and
\* changes neither table.
C2_DuplicateGrantFails ==
    [][(last'.op = "grantAccess" /\ acl[last'.args.tuple] > 0) =>
           /\ last'.out = Prisma("P2002")
           /\ acl'[last'.args.tuple] = 1
           /\ acl' = acl
           /\ users' = users]_vars

C2_Witness ==
    /\ last.op = "grantAccess"
    /\ last.out = Prisma("P2002")
    /\ acl[last.args.tuple] = 1

\* C3: checkAccess throws AccessDenied exactly when the tuple has no row at
\* the time of the call, returns normally exactly when it has one, and
\* never changes the store.
C3_CheckAccess ==
    [][last'.op = "checkAccess" =>
           /\ (last'.out = Known("AccessDenied")) = (acl[last'.args.tuple] = 0)
           /\ (last'.out = Ret(Void)) = (acl[last'.args.tuple] > 0)
           /\ acl' = acl
           /\ users' = users]_vars

C3_Witness ==
    /\ last.op = "checkAccess"
    /\ last.out = Known("AccessDenied")
    /\ \E t \in AclTuples : acl[t] > 0

\* C4: revokeAccess on a tuple without a row fails with the not-found error
\* P2025 and leaves the ACL unchanged; on a tuple with a row it removes that
\* tuple and no other.
C4_Revoke ==
    [][last'.op = "revokeAccess" =>
           IF acl[last'.args.tuple] = 0
           THEN last'.out = Prisma("P2025") /\ acl' = acl
           ELSE last'.out = Ret(Void) /\ acl' = [acl EXCEPT ![last'.args.tuple] = 0]]_vars

C4_Witness ==
    /\ Succeeded(last, "revokeAccess")
    /\ \E t \in AclTuples : acl[t] > 0

\* C21: hasAccess returns true exactly when the tuple has a row, always
\* returns (it throws nothing) and changes neither table; and a step that is
\* not a successful grantAccess or revokeAccess leaves the answer of
\* hasAccess for every tuple as it was.
C21_HasAccessPure ==
    [][/\ last'.op = "hasAccess" =>
              /\ last'.out = Ret(Bool(acl[last'.args.tuple] > 0))
              /\ acl' = acl
              /\ users' = users
       /\ ~(Succeeded(last', "grantAccess") \/ Succeeded(last', "revokeAccess")) =>
              \A t \in AclTuples :
                  hasAccess(acl', t[1], t[2], t[3]) = hasAccess(acl, t[1], t[2], t[3])]_vars

C21_Witness ==
    /\ last.op = "hasAccess"
    /\ last.out = Ret(Bool(FALSE))
    /\ \E t \in AclTuples :
          /\ acl[t] > 0
          /\ t[1] # last.args.tuple[1]
          /\ t[2] = last.args.tuple[2]
          /\ t[3] = last.args.tuple[3]

\* C27: a grantAccess or revokeAccess on a tuple, successful or not, leaves
\* the rows of every other tuple and the answer of checkAccess on every
\* other tuple as they were, and leaves the User table unchanged.
C27_OnlyTheNamedTuple ==
    [][last'.op \in {"grantAccess", "revokeAccess"} =>
           /\ \A t \in AclTuples \ {last'.args.tuple} :
                 /\ acl'[t] = acl[t]
                 /\ checkAccess(acl', t[1], t[2], t[3]) = checkAccess(acl, t[1], t[2], t[3])
           /\ users' = users
           /\ nextId' = nextId]_vars

C27_Witness ==
    /\ Succeeded(last, "grantAccess")
    /\ \E t \in AclTuples :
          /\ t[1] = last.args.tuple[1]
          /\ t[3] # last.args.tuple[3]
          /\ checkAccess(acl, t[1], t[2], t[3]) = Known("AccessDenied")
    /\ \E t \in AclTuples :
          /\ t[1] # last.args.tuple[1]
          /\ t[3] = last.args.tuple[3]
          /\ checkAccess(acl, t[1], t[2], t[3]) = Known("AccessDenied")

\* C5: a tuple granted by the callback of a transaction is absent once that
\* transaction has rolled back.
C5_GrantRollsBack ==
    [][(txOpen /\ ~txOpen' /\ last'.op # "commit") =>
           \A t \in txGranted : acl'[t] = 0]_vars

(***************************************************************************)
(* User identity: passwords                                                *)
(***************************************************************************)
CreateInputs == [username : Usernames, password : Passwords]
UpdateInputs ==
    [username : Usernames] \cup [password : Passwords]
        \cup [username : Usernames, password : Passwords]

NextUser ==
    \/ \E d \in CreateInputs, salt \in Salts : Create(d, salt)
    \/ \E id \in UserIds, safe \in SafeArgs : GetById(id, safe)
    \/ \E u \in Usernames, safe \in SafeArgs : GetByUsername(u, safe)
    \/ \E id \in UserIds, d \in UpdateInputs, salt \in Salts : Update(id, d, salt)
    \/ \E u \in Usernames, p \in Passwords : GetByCredentials(u, p)

SpecUser == Init /\ [][NextUser]_vars

SafeFields == {"id", "username"}
Secrets == {"password", "apiKey"}

\* C6: right after create(data) returns, getByUsername(username) with the
\* safe flag omitted or true returns a record without password and apiKey,
\* getByUsername(username, false) returns a record whose password is a
\* bcrypt hash verifying against data.password and different from it, and
\* the value create returned is the safe view of the new row.
C6_CreateRoundTrip ==
    Succeeded(last, "create") =>
        LET data == last.args.data
            byDefault == getByUsername(users, data.username, "omitted")
            safe == getByUsername(users, data.username, "true")
            full == getByUsername(users, data.username, "false")
        IN /\ Returned(byDefault) /\ DOMAIN byDefault.val = SafeFields
           /\ Returned(safe) /\ DOMAIN safe.val = SafeFields
           /\ Returned(full)
           /\ bcryptCompare(data.password, full.val.password)
           /\ full.val.password # Raw(data.password)
           /\ last.out.val = safe.val
           /\ last.out.val.username = data.username

C6_Witness ==
    /\ Succeeded(last, "create")
    /\ last.args.data.password = "pw1"
    /\ Cardinality(DOMAIN users) = 2

\* C8: the stored password of every user is a bcrypt hash, and right after a
\* create or an update whose payload has a password field (any string, the
\* empty one included) it is the hash of that password; the other fields of
\* the payload are written as given.
C8_PasswordsHashed ==
    /\ \A i \in DOMAIN users : users[i].password.fmt = "bcrypt"
    /\ Succeeded(last, "create") =>
           bcryptCompare(last.args.data.password, users[last.out.val.id].password)
    /\ Succeeded(last, "update") =>
           LET id == last.args.id
               data == last.args.data
           IN /\ HasField(data, "password") => bcryptCompare(data.password, users[id].password)
              /\ HasField(data, "username") => users[id].username = data.username

\* C9: getByCredentials throws UserNotFound when no row has the username,
\* else throws UserCredentialsNotValid when the password does not verify
\* against the stored hash, else returns the safe view of the row; it never
\* changes the store.
C9_GetByCredentials ==
    [][last'.op = "getByCredentials" =>
           LET username == last'.args.username
               password == last'.args.password
               found == {i \in DOMAIN users : users[i].username = username}
           IN /\ users' = users /\ nextId' = nextId /\ acl' = acl
              /\ found = {} => last'.out = Known("UserNotFound")
              /\ \A i \in found :
                    IF users[i].password.fmt = "bcrypt" /\ users[i].password.of = password
                    THEN last'.out = Ret([id |-> i, username |-> username])
                    ELSE last'.out = Known("UserCredentialsNotValid")]_vars

C9_Witness ==
    /\ last.op = "getByCredentials"
    /\ last.out = Known("UserCredentialsNotValid")
    /\ Cardinality(DOMAIN users) = 2

\* C20: no two users have the same username after any step, and a create
\* whose username belongs to a user fails with the unique-constraint error
\* P2002 and leaves the table as it was.
C20_UsernamesUnique ==
    [][/\ \A i, j \in DOMAIN users' : users'[i].username = users'[j].username => i = j
       /\ (last'.op = "create" /\ UsernameTaken(users, last'.args.data.username, 0)) =>
              /\ last'.out = Prisma("P2002")
              /\ users' = users]_vars

C20_Witness ==
    /\ last.op = "create"
    /\ last.out = Prisma("P2002")
    /\ \E i \in DOMAIN users : users[i].username = last.args.data.username

\* Users being created and fetched.
NextFetch ==
    \/ \E d \in CreateInputs : Create(d, 1)
    \/ \E id \in UserIds, safe \in SafeArgs : GetById(id, safe)
    \/ \E u \in Usernames, safe \in SafeArgs : GetByUsername(u, safe)

SpecFetch == Init /\ [][NextFetch]_vars

\* C22: getById and getByUsername throw UserNotFound exactly when no row has
\* the id or the username, and otherwise return that row: its safe view
\* (id and username only) when the safe flag is omitted or true, the whole
\* row with password and apiKey when it is false; they change nothing.
C22_FetchOrFail ==
    [][last'.op \in {"getById", "getByUsername"} =>
           LET found == IF last'.op = "getById"
                        THEN {i \in DOMAIN users : i = last'.args.id}
                        ELSE {i \in DOMAIN users : users[i].username = last'.args.username}
               out == last'.out
           IN /\ users' = users
              /\ (out = Known("UserNotFound")) <=> (found = {})
              /\ found = {} => ~Returned(out)
              /\ \A i \in found :
                    /\ Returned(out)
                    /\ out.val.id = i
                    /\ out.val.username = users[i].username
                    /\ IF last'.args.safe = "false"
                       THEN /\ DOMAIN out.val = SafeFields \cup Secrets
                            /\ out.val.password = users[i].password
                            /\ out.val.apiKey = users[i].apiKey
                       ELSE DOMAIN out.val = SafeFields]_vars

C22_Witness ==
    /\ last.op = "getByUsername"
    /\ last.args.safe = "omitted"
    /\ Returned(last.out)
    /\ last.out.val.id = 2

(***************************************************************************)
(* User identity: API keys                                                 *)
(***************************************************************************)
KeyChars == {"a", "b"}
RECURSIVE SeqsOfLen(_, _)
SeqsOfLen(S, n) ==
    IF n = 0 THEN {<<>>} ELSE {Append(w, c) : w \in SeqsOfLen(S, n - 1), c \in S}
SeqsUpTo(S, n) == UNION {SeqsOfLen(S, k) : k \in 0..n}

\* randomBytes(32).toString('hex'), shortened to KeyLen characters.
Keys == SeqsOfLen(KeyChars, KeyLen)
\* What a caller may put after "<id>:".
KeyGuesses == SeqsUpTo(KeyChars \cup {":"}, KeyLen + MaxExtra)
Composite(id, key) == toString(id) \o <<":">> \o key

CompositeInputs ==
    {Composite(id, k) : id \in UserIds, k \in Keys}
        \cup {Composite(id, k \o <<":", "a">>) : id \in UserIds, k \in Keys}
        \cup {<<>>, <<"1">>, <<"1", ":">>, <<":", "a">>, <<"a", ":", "a">>}

KeyCreateInputs == [username : Usernames, password : {"pw1"}]
\* Prisma.UserUpdateInput has an apiKey field.
KeyUpdateInputs == [apiKey : Keys]

NextKey ==
    \/ \E d \in KeyCreateInputs : Create(d, 1)
    \/ \E id \in UserIds, k \in Keys, salt \in Salts : UpdateApiKey(id, k, salt)
    \/ \E ck \in CompositeInputs : IsApiCompositeKeyValid(ck)
    \/ \E ck \in CompositeInputs : ValidateCompositeApiKey(ck)

SpecKey == Init /\ [][NextKey]_vars

\* Keys being rotated and presented.
NextRotate ==
    \/ \E d \in KeyCreateInputs : Create(d, 1)
    \/ \E id \in UserIds, k \in Keys : UpdateApiKey(id, k, 1)
    \/ \E id \in UserIds, k \in Keys : IsApiCompositeKeyValid(Composite(id, k))

SpecRotate == Init /\ [][NextRotate]_vars

\* The same with update called with an apiKey in its payload.
NextKeyStore ==
    \/ \E d \in KeyCreateInputs : Create(d, 1)
    \/ \E id \in UserIds, k \in Keys : UpdateApiKey(id, k, 1)
    \/ \E id \in UserIds, d \in KeyUpdateInputs : Update(id, d, 1)
    \/ \E id \in UserIds, k \in Keys : IsApiCompositeKeyValid(Composite(id, k))

SpecKeyStore == Init /\ [][NextKeyStore]_vars

\* The boundary guard and its primitive on well-formed and malformed keys.
GuardInputs ==
    {Composite(id, k) : id \in UserIds, k \in Keys}
        \cup {<<>>, <<"1">>, <<"2">>, <<"1", ":">>, <<":", "a">>, <<"a", ":", "a">>,
              <<"1", ":", "a", ":", "a">>, <<"1", ":", ":">>}

\* The first user gets keys, the others have none.
NextGuard ==
    \/ \E d \in KeyCreateInputs : Create(d, 1)
    \/ \E k \in Keys : UpdateApiKey(1, k, 1)
    \/ \E ck \in GuardInputs : IsApiCompositeKeyValid(ck)
    \/ \E ck \in GuardInputs : ValidateCompositeApiKey(ck)

SpecGuard == Init /\ [][NextGuard]_vars

\* C10: right after updateApiKey(id) returns K, isApiCompositeKeyValid of
\* "<id>:<K>" returns true and of "<id>:<W>" returns false for every W other
\* than K; for an id without a row it throws UserNotFound.
C10_KeyValidates ==
    Succeeded(last, "updateApiKey") =>
        LET id == last.args.id
            K == last.out.val.string
        IN /\ isApiCompositeKeyValid(users, Composite(id, K)) = Ret(Bool(TRUE))
           /\ \A W \in KeyGuesses \ {K} :
                  isApiCompositeKeyValid(users, Composite(id, W)) = Ret(Bool(FALSE))
           /\ \A other \in UserIds \ DOMAIN users, W \in KeyGuesses :
                  isApiCompositeKeyValid(users, Composite(other, W)) = Known("UserNotFound")

IsValid(us, id, key) == isApiCompositeKeyValid(us, Composite(id, key)) = Ret(Bool(TRUE))
IsInvalid(us, id, key) == isApiCompositeKeyValid(us, Composite(id, key)) = Ret(Bool(FALSE))

\* C11: when an updateApiKey(id) call returns K2, the stored key of the user
\* is the bcrypt hash of K2, "<id>:<K2>" validates, "<id>:<K1>" does not for
\* any other key K1 (the keys returned for the user before among them), no
\* other row changes, and in no state do two keys validate for one user.
C11_RotationInvalidatesOldKey ==
    [][/\ users' # users =>
             \A id \in DOMAIN users' :
                 Cardinality({K \in Keys : IsValid(users', id, K)}) <= 1
       /\ Succeeded(last', "updateApiKey") =>
             LET id == last'.args.id
                 K2 == last'.out.val.string
             IN /\ users'[id].apiKey.fmt = "bcrypt" /\ users'[id].apiKey.of = K2
                /\ IsValid(users', id, K2)
                /\ \A K1 \in Keys \ {K2} : IsInvalid(users', id, K1)
                /\ \A n \in 1..Len(issued'[id]) :
                       issued'[id][n] # K2 => IsInvalid(users', id, issued'[id][n])
                /\ \A i \in DOMAIN users' \ {id} : users'[i] = users[i]]_vars

C11_Witness ==
    /\ Succeeded(last, "updateApiKey")
    /\ Len(issued[last.args.id]) = 2
    /\ issued[last.args.id][1] # issued[last.args.id][2]
    /\ issued[last.args.id][2] = last.out.val.string

\* C12: the apiKey column of every user is NULL or the bcrypt hash of the
\* key updateApiKey returned last for that user, and no call other than
\* updateApiKey returns a key.
C12_PlaintextNeverStored ==
    /\ \A i \in DOMAIN users :
           \/ users[i].apiKey = NULL
           \/ /\ users[i].apiKey.fmt = "bcrypt"
              /\ i \in DOMAIN issued
              /\ users[i].apiKey.of = issued[i][Len(issued[i])]
    /\ last.op # "updateApiKey" => ~HasField(last.out.val, "string")

\* C13: isApiCompositeKeyValid throws AccessDenied exactly when the id
\* before the first colon is that of a user whose apiKey is NULL, whatever
\* follows the id (nothing at all included), and throws UserNotFound when
\* the id is a number without a row; it changes nothing.
C13_NoKeyIsAccessDenied ==
    [][last'.op = "isApiCompositeKeyValid" =>
           LET id == Number(split(last'.args.compositeKey, ":")[1])
               noKey == id \in DOMAIN users /\ users[id].apiKey = NULL
           IN /\ noKey <=> last'.out = Known("AccessDenied")
              /\ (id # NaN /\ id \notin DOMAIN users) <=> last'.out = Known("UserNotFound")
              /\ noKey => last'.out # Ret(Bool(FALSE)) /\ last'.out # Known("UserApiTokenNotValid")
              /\ users' = users]_vars

C13_Witness ==
    /\ last.op = "isApiCompositeKeyValid"
    /\ last.out = Known("AccessDenied")
    /\ \E i \in DOMAIN users : users[i].apiKey # NULL
    /\ \E i \in UserIds : i \notin DOMAIN users

\* C14: for a user with an API key, isApiCompositeKeyValid of "<id>:<W>"
\* returns what verifying the whole of W, further colons included, against
\* the stored hash gives.
C14_SplitsOnFirstColon ==
    \A id \in DOMAIN users, W \in KeyGuesses :
        users[id].apiKey # NULL =>
            isApiCompositeKeyValid(users, Composite(id, W))
                = Ret(Bool(bcryptCompare(W, users[id].apiKey)))

\* C15: validateCompositeApiKey returns normally exactly when
\* isApiCompositeKeyValid returns true, throws UserApiTokenNotValid exactly
\* when it returns false, throws what isApiCompositeKeyValid throws
\* (UserNotFound, AccessDenied) otherwise, and changes nothing.
C15_ValidateWraps ==
    [][last'.op = "validateCompositeApiKey" =>
           LET p == isApiCompositeKeyValid(users, last'.args.compositeKey)
               v == last'.out
           IN /\ (v = Ret(Void)) <=> (p = Ret(Bool(TRUE)))
              /\ (v = Known("UserApiTokenNotValid")) <=> (p = Ret(Bool(FALSE)))
              /\ ~Returned(p) => v = p
              /\ users' = users]_vars

C15_Witness ==
    /\ last.op = "validateCompositeApiKey"
    /\ last.out = Known("AccessDenied")
    /\ \E i \in DOMAIN users : users[i].apiKey # NULL

\* A composite key of the form "<id>:<key>": one colon, decimal digits
\* before it and a key after it.
IsWellFormed(compositeKey) ==
    LET parts == split(compositeKey, ":") IN
    /\ Len(parts) = 2
    /\ parts[1] # <<>>
    /\ \A i \in 1..Len(parts[1]) : IsDigit(parts[1][i])
    /\ parts[2] # <<>>

\* C30: whatever string it is given, isApiCompositeKeyValid returns true,
\* returns false, throws UserNotFound or throws AccessDenied, and it returns
\* true only for a string of the form "<id>:<key>".
C30_FourOutcomes ==
    last.op = "isApiCompositeKeyValid" =>
        /\ last.out \in {Ret(Bool(TRUE)), Ret(Bool(FALSE)),
                          Known("UserNotFound"), Known("AccessDenied")}
        /\ last.out = Ret(Bool(TRUE)) => IsWellFormed(last.args.compositeKey)

(***************************************************************************)
(* User identity: calls inside and outside a transaction                   *)
(***************************************************************************)
\* The first user is the one updated, given a key and logged in; both
\* users are created and fetched.
TxUpdateInputs == [password : {"pw2"}]
\* One key: a run of the first key character.
TxKeys == {k \in Keys : \A i \in 1..Len(k) : k[i] = "a"}
TxCompositeInputs == {Composite(1, k) : k \in TxKeys}

NextTx ==
    \/ TxBegin
    \/ \E d \in AclCreateInputs, tx \in Handles : CreateIn(d, 1, tx)
    \/ \E id \in 1..MaxUsers, tx \in Handles : GetByIdIn(id, "omitted", tx)
    \/ \E u \in Usernames, tx \in Handles : GetByUsernameIn(u, "false", tx)
    \/ \E d \in TxUpdateInputs, tx \in Handles : UpdateIn(1, d, 1, tx)
    \/ \E k \in TxKeys, tx \in Handles : UpdateApiKeyIn(1, k, 1, tx)
    \/ \E tx \in Handles : GetByCredentialsIn("alice", "pw2", tx)
    \/ \E ck \in TxCompositeInputs, tx \in Handles : IsApiCompositeKeyValidIn(ck, tx)
    \/ \E ck \in TxCompositeInputs, tx \in Handles : ValidateCompositeApiKeyIn(ck, tx)
    \/ TxCommit
    \/ TxRollback

SpecTx == Init /\ [][NextTx]_vars

\* The table a call works on and the table it leaves: for a call with tx
\* the committed rows overlaid with the transaction's, for a call without
\* the committed rows.
SeenBy(tx) == IF tx = "tx" THEN TxView ELSE users
LeftBy(tx) == IF tx = "tx" THEN TxView' ELSE users'

\* C24: a call with tx reads the rows as the transaction sees them (its own
\* uncommitted writes included), gives what the operation gives on those
\* rows, writes into the transaction only and leaves the committed rows as
\* they are; a call without tx reads and writes the committed rows only and
\* leaves the transaction as it is.  This holds for create, getById,
\* getByUsername, update, updateApiKey, getByCredentials,
\* isApiCompositeKeyValid and validateCompositeApiKey.
C24_TxThreaded ==
    [][HasField(last'.args, "tx") =>
           LET c == last'
               tx == c.args.tx
               seen == SeenBy(tx)
               written == Returned(c.out) \/ tx = "db"
           IN /\ tx = "tx" => users' = users
              /\ tx = "db" => txUsers' = txUsers /\ txOpen' = txOpen
              /\ c.op = "create" =>
                     \E salt \in Salts :
                         LET r == create(seen, nextId, c.args.data, salt) IN
                         c.out = r.out /\ (written => LeftBy(tx) = r.users)
              /\ c.op = "getById" => c.out = getById(seen, c.args.id, c.args.safe)
              /\ c.op = "getByUsername" =>
                     c.out = getByUsername(seen, c.args.username, c.args.safe)
              /\ c.op = "update" =>
                     \E salt \in Salts :
                         LET r == update(seen, c.args.id, c.args.data, salt) IN
                         c.out = r.out /\ (written => LeftBy(tx) = r.users)
              /\ c.op = "updateApiKey" =>
                     \E key \in Keys, salt \in Salts :
                         LET r == updateApiKey(seen, c.args.id, key, salt) IN
                         c.out = r.out /\ (written => LeftBy(tx) = r.users)
              /\ c.op = "getByCredentials" =>
                     c.out = getByCredentials(seen, c.args.username, c.args.password)
              /\ c.op = "isApiCompositeKeyValid" =>
                     c.out = isApiCompositeKeyValid(seen, c.args.compositeKey)
              /\ c.op = "validateCompositeApiKey" =>
                     c.out = validateCompositeApiKey(seen, c.args.compositeKey)
              /\ c.op \in {"getById", "getByUsername", "getByCredentials",
                            "isApiCompositeKeyValid", "validateCompositeApiKey"} =>
                     (written => LeftBy(tx) = seen)]_vars

\* A call with tx has read a row that only the transaction has.
C24_Witness ==
    /\ last.op = "getByCredentials"
    /\ HasField(last.args, "tx")
    /\ last.args.tx = "tx"
    /\ Returned(last.out)
    /\ last.out.val.id \notin DOMAIN users
    /\ txOpen
    /\ DOMAIN users # {}

(***************************************************************************)
(* parsePeriod                                                             *)
(* A JavaScript number is the record [number, nan]: an integer, or NaN.    *)
(***************************************************************************)
Num(n) == [number |-> n, nan |-> FALSE]
NotANumber == [number |-> 0, nan |-> TRUE]
times(a, b) == IF a.nan \/ b.nan THEN NotANumber ELSE Num(a.number * b.number)
plus(a, b) == IF a.nan \/ b.nan THEN NotANumber ELSE Num(a.number + b.number)

\* The characters of period strings; the character classes of the regular
\* expression /[a-zA-Z]+|[-0-9]+/g on them.
Units == {"s", "m", "h", "d"}
PeriodChars == Units \cup {"x", "1", "-"}
CharClass(c) ==
    IF c \in Units \cup {"x"} THEN "a-zA-Z"
    ELSE IF c = "-" \/ IsDigit(c) THEN "-0-9"
    ELSE "none"

\* chunk.match(/[a-zA-Z]+|[-0-9]+/g): the maximal runs of one class, from
\* left to right; the empty sequence stands for null.
RECURSIVE matchAcc(_, _, _)
matchAcc(s, cur, class) ==
    LET flushed == IF cur = <<>> THEN <<>> ELSE <<cur>> IN
    IF s = <<>> THEN flushed
    ELSE LET k == CharClass(Head(s)) IN
         IF k = "none" THEN flushed \o matchAcc(Tail(s), <<>>, "none")
         ELSE IF k = class THEN matchAcc(Tail(s), Append(cur, Head(s)), class)
         ELSE flushed \o matchAcc(Tail(s), <<Head(s)>>, k)

match(chunk) == matchAcc(chunk, <<>>, "none")

\* The longest prefix of decimal digits.
RECURSIVE digitsPrefix(_)
digitsPrefix(s) ==
    IF s = <<>> \/ ~IsDigit(Head(s)) THEN <<>> ELSE <<Head(s)>> \o digitsPrefix(Tail(s))

\* parseInt(string): an optional sign, then digits up to the first other
\* character; NaN without a digit.
parseInt(s) ==
    LET negative == s # <<>> /\ Head(s) = "-"
        digits == digitsPrefix(IF negative THEN Tail(s) ELSE s)
    IN IF digits = <<>> THEN NotANumber
       ELSE Num(IF negative THEN 0 - decimal(digits, 0) ELSE decimal(digits, 0))

length ==
    [u \in Units |->
        CASE u = "s" -> 1000
          [] u = "m" -> 60000
          [] u = "h" -> 60 * 60000
          [] u = "d" -> 24 * 60 * 60000]

\* length[key] as an operand of *: undefined, which makes the product NaN,
\* for a key that is no unit.
lengthOf(key) ==
    IF Len(key) = 1 /\ key[1] \in DOMAIN length THEN Num(length[key[1]]) ELSE NotANumber

\* The loop of parsePeriod over the chunks left.
RECURSIVE parseChunks(_, _)
parseChunks(chunks, milliseconds) ==
    IF chunks = <<>> THEN Ret(milliseconds)
    ELSE LET ar == match(Head(chunks)) IN
         IF Len(ar) < 2 THEN Unclassified("Can't parse period")
         ELSE parseChunks(Tail(chunks),
                          plus(milliseconds, times(parseInt(ar[1]), lengthOf(ar[2]))))

parsePeriod(periodString) == parseChunks(split(periodString, " "), Num(0))

ParsePeriod(periodString) ==
    /\ last' = Call("parsePeriod", [periodString |-> periodString], parsePeriod(periodString))
    /\ UNCHANGED <<users, nextId, acl, txOpen, txUsers, txGranted, tokens, issued, cacheVars, calls>>

MaxChunkLen == 3
\* Period strings: one chunk, a shorter chunk and a second one, and the
\* example of the documentation.
Chunks == SeqsUpTo(PeriodChars, MaxChunkLen)
FirstChunks == SeqsUpTo(PeriodChars, MaxChunkLen - 1)
SecondChunks == {<<>>, <<"1", "s">>, <<"1", "1", "m">>, <<"1", "x">>, <<"x">>}
PeriodStrings ==
    Chunks
        \cup {a \o <<" ">> \o b : a \in FirstChunks, b \in SecondChunks}
        \cup {<<"1", "h", " ", "3", "0", "m", " ", "1", "s">>}

NextPeriod == \E periodString \in PeriodStrings : ParsePeriod(periodString)

SpecPeriod == Init /\ [][NextPeriod]_vars

\* A chunk that is a count followed by a unit: digits, with or without a
\* sign before them, then one of s, m, h, d.
IsCountAndUnit(chunk) ==
    /\ Len(chunk) >= 2
    /\ chunk[Len(chunk)] \in Units
    /\ LET count == SubSeq(chunk, 1, Len(chunk) - 1)
           digits == IF Head(count) = "-" THEN Tail(count) ELSE count
       IN digits # <<>> /\ \A i \in 1..Len(digits) : IsDigit(digits[i])

\* The count of such a chunk times the milliseconds of its unit.
ChunkMs(chunk) ==
    LET count == SubSeq(chunk, 1, Len(chunk) - 1)
        n == IF Head(count) = "-" THEN 0 - decimal(Tail(count), 0) ELSE decimal(count, 0)
    IN n * length[chunk[Len(chunk)]]

RECURSIVE SumMs(_)
SumMs(chunks) == IF chunks = <<>> THEN 0 ELSE ChunkMs(Head(chunks)) + SumMs(Tail(chunks))

\* C26: parsePeriod of a string whose space-separated chunks are each a
\* count followed by a unit returns the sum of count times unit length
\* (5401000 for "1h 30m 1s"); for a string with a chunk that is not, it
\* throws "Can't parse period" and returns nothing.
C26_ParsePeriod ==
    last.op = "parsePeriod" =>
        LET chunks == split(last.args.periodString, " ") IN
        IF \A i \in 1..Len(chunks) : IsCountAndUnit(chunks[i])
        THEN last.out = Ret(Num(SumMs(chunks)))
        ELSE Threw(last.out, "Can't parse period")

(***************************************************************************)
(* Concurrent callers                                                      *)
(* Each repository method issues one statement; the store runs statements  *)
(* one at a time, in any order.                                            *)
(***************************************************************************)
\* Caller c invokes op; local is what the method computes before its
\* statement, found whether the row the call names is in the store.
Invoke(c, op, args, local, found) ==
    /\ calls[c].pc = "idle"
    /\ LET d == Other(c)
           together == calls[d].pc = "called" /\ calls[d].op = op /\ calls[d].args = args
           race == IF together THEN found ELSE "none"
       IN calls' = [calls EXCEPT
                       ![c] = [pc |-> "called", op |-> op, args |-> args, local |-> local,
                               race |-> race, out |-> Ret(Void)],
                       ![d] = IF together THEN [@ EXCEPT !.race = found] ELSE @]

Found(b) == IF b THEN "present" ELSE "absent"

\* The statement of c's call has run and ended with out.
Settle(c, out) ==
    /\ calls' = [calls EXCEPT ![c].pc = "settled", ![c].out = out]
    /\ last' = Call(calls[c].op, calls[c].args, out)

\* A tuple is "absent" when it has no row and its user has one.
GrantAccessCall(c, t) ==
    /\ Invoke(c, "grantAccess", [tuple |-> t], NoArgs,
              IF t[1] \in DOMAIN users THEN Found(acl[t] > 0) ELSE "no user")
    /\ UNCHANGED <<users, nextId, acl, txOpen, txUsers, txGranted, tokens, issued, cacheVars, last>>

RevokeAccessCall(c, t) ==
    /\ Invoke(c, "revokeAccess", [tuple |-> t], NoArgs, Found(acl[t] > 0))
    /\ UNCHANGED <<users, nextId, acl, txOpen, txUsers, txGranted, tokens, issued, cacheVars, last>>

\* createApiKey runs before the statement: key and salt are drawn here.
UpdateApiKeyCall(c, id, key, salt) ==
    /\ Invoke(c, "updateApiKey", [id |-> id], [key |-> key, salt |-> salt],
              Found(id \in DOMAIN users))
    /\ UNCHANGED <<users, nextId, acl, txOpen, txUsers, txGranted, tokens, issued, cacheVars, last>>

\* db.aCL.create of a pending grantAccess.
GrantAccessStatement(c) ==
    /\ calls[c].pc = "called"
    /\ calls[c].op = "grantAccess"
    /\ LET t == calls[c].args.tuple
           r == grantAccess(users, acl, t[1], t[2], t[3]) IN
       /\ acl' = r.acl
       /\ Settle(c, r.out)
    /\ UNCHANGED <<users, nextId, txOpen, txUsers, txGranted, tokens, issued, cacheVars>>

\* db.aCL.delete of a pending revokeAccess.
RevokeAccessStatement(c) ==
    /\ calls[c].pc = "called"
    /\ calls[c].op = "revokeAccess"
    /\ LET t == calls[c].args.tuple
           r == revokeAccess(acl, t[1], t[2], t[3]) IN
       /\ acl' = r.acl
       /\ txGranted' = IF Returned(r.out) THEN txGranted \ {t} ELSE txGranted
       /\ Settle(c, r.out)
    /\ UNCHANGED <<users, nextId, txOpen, txUsers, tokens, issued, cacheVars>>

\* db.user.update of a pending updateApiKey.
UpdateApiKeyStatement(c) ==
    /\ calls[c].pc = "called"
    /\ calls[c].op = "updateApiKey"
    /\ LET id == calls[c].args.id
           key == calls[c].local.key
           r == updateApiKey(users, id, key, calls[c].local.salt) IN
       /\ users' = r.users
       /\ issued' = IF Returned(r.out)
                     THEN [i \in DOMAIN issued \cup {id} |->
                              IF i = id
                              THEN Remember(IF id \in DOMAIN issued THEN issued[id] ELSE <<>>, key)
                              ELSE issued[i]]
                     ELSE issued
       /\ Settle(c, r.out)
    /\ UNCHANGED <<nextId, acl, txOpen, txUsers, txGranted, tokens, cacheVars>>

\* The promise of c's call resolves or rejects; c may call again.
Settled(c) ==
    /\ calls[c].pc = "settled"
    /\ calls' = [calls EXCEPT ![c] = NoPending]
    /\ UNCHANGED <<users, nextId, acl, txOpen, txUsers, txGranted, tokens, issued, cacheVars, last>>

\* Two callers granting and revoking the tuples of the first user.
RaceTuples == {t \in AclTuples : t[1] = 1}

NextAclRace ==
    \/ \E d \in AclCreateInputs : Create(d, 1)
    \/ \E c \in Callers, t \in RaceTuples : GrantAccessCall(c, t)
    \/ \E c \in Callers, t \in RaceTuples : RevokeAccessCall(c, t)
    \/ \E c \in Callers : GrantAccessStatement(c)
    \/ \E c \in Callers : RevokeAccessStatement(c)
    \/ \E c \in Callers : Settled(c)

SpecAclRace == Init /\ [][NextAclRace]_vars

\* Two callers rotating the key of the first user; the keys drawn are the
\* runs of one key character.
RaceKeys == {k \in Keys : \A i \in 1..Len(k) : k[i] = k[1]}

NextKeyRace ==
    \/ \E d \in KeyCreateInputs : Create(d, 1)
    \/ \E c \in Callers, k \in RaceKeys : UpdateApiKeyCall(c, 1, k, 1)
    \/ \E c \in Callers : UpdateApiKeyStatement(c)
    \/ \E c \in Callers : Settled(c)

SpecKeyRace == Init /\ [][NextKeyRace]_vars

\* The statement of c's pending call runs in this step.
Runs(c, op) == calls[c].pc = "called" /\ calls[c].op = op /\ calls'[c].pc = "settled"
\* c's call is one of two equal calls that were pending together when the
\* row they name was as found says.
Raced(c, found) == calls[c].race = found /\ calls[Other(c)].race = found

C29_LastWriteWins ==
    [][\A c \in Callers :
          LET d == Other(c)
              id == calls[c].args.id
          IN (/\ Runs(c, "updateApiKey")
              /\ Raced(c, "present")
              /\ calls[d].pc = "settled"
              /\ calls[d].op = "updateApiKey"
              /\ calls[d].args = calls[c].args
              /\ Returned(calls[d].out)
              /\ Returned(calls'[c].out)
              /\ calls[d].out # calls'[c].out) =>
                 /\ IsValid(users', id, calls'[c].out.val.string)
                 /\ IsInvalid(users', id, calls[d].out.val.string)
                 /\ IsValid(users, id, calls[d].out.val.string)]_vars

\* Both calls of a race of key rotations have settled with different keys.
C29_Witness ==
    /\ \A c \in Callers :
          /\ calls[c].pc = "settled"
          /\ calls[c].op = "updateApiKey"
          /\ calls[c].race = "present"
          /\ Returned(calls[c].out)
    /\ calls["c1"].args = calls["c2"].args
    /\ calls["c1"].out # calls["c2"].out
    /\ Cardinality({c \in Callers :
                       IsValid(users, calls[c].args.id, calls[c].out.val.string)}) = 1

(***************************************************************************)
(* Use cases and HTTP routes                                               *)
(***************************************************************************)
HttpStatusOK == 200
HttpStatusUnauthorized == 401
HttpStatusServerError == 503
Reply(status, body) == [kind |-> "reply", status |-> status, val |-> body]

\* signer.sign(user): a token carrying the claims object; verification
\* succeeds for tokens this server signed.
Jwt(claims) == [claims |-> claims, signed |-> TRUE]
ForgedJwt == [claims |-> [id |-> 1, username |-> "alice"], signed |-> FALSE]

\* Users.authenticate
authenticateUser(us, username, password) ==
    LET user == getByCredentials(us, username, password) IN
    IF ~Returned(user) THEN [out |-> user, signed |-> {}]
    ELSE LET token == Jwt(user.val) IN
         [out |-> Ret([f \in DOMAIN user.val \cup {"token"} |->
                          IF f = "token" THEN token ELSE user.val[f]]),
          signed |-> {user.val}]

\* The callback createRoute registers: 200 with the handler's value, 503
\* with code and message for a KnownError, 503 with the error text otherwise.
routeCallback(o) ==
    IF Returned(o) THEN Reply(HttpStatusOK, o.val)
    ELSE IF o.cls = "KnownError"
         THEN Reply(HttpStatusServerError,
                    [error |-> o.val.code,
                     message |-> IF HasField(o.val, "message") THEN o.val.message ELSE ""])
         ELSE Reply(HttpStatusServerError, [error |-> o.val.code])

\* authenticate accepting every verified token.
authenticateNoIdCheck(token) ==
    IF token.signed
    THEN Ret(token.claims)
    ELSE Reply(HttpStatusUnauthorized,
               [error |-> "Unauthorized", message |-> "Unauthorized request"])

\* The preHandler of routes with auth: true.
authenticate(token) ==
    IF token.signed /\ HasField(token.claims, "id")
    THEN Ret(token.claims)
    ELSE Reply(HttpStatusUnauthorized,
               [error |-> "Unauthorized", message |-> "Unauthorized request"])

\* POST /users
PostUsers(body, salt) ==
    /\ nextId <= MaxUsers
    /\ LET r == create(users, nextId, body, salt) IN
       /\ users' = r.users
       /\ nextId' = r.nextId
       /\ last' = Call("POST /users", [body |-> body], routeCallback(r.out))
    /\ UNCHANGED <<acl, txOpen, txUsers, txGranted, tokens, issued, cacheVars, calls>>

\* POST /auth
PostAuth(body) ==
    /\ LET r == authenticateUser(users, body.username, body.password) IN
       /\ tokens' = tokens \cup r.signed
       /\ last' = Call("POST /auth", [body |-> body], routeCallback(r.out))
    /\ UNCHANGED <<users, nextId, acl, txOpen, txUsers, txGranted, issued, cacheVars, calls>>

\* GET /users/me with a bearer token
GetUsersMe(token) ==
    /\ LET a == authenticate(token) IN
       last' = Call("GET /users/me", [token |-> token],
                    IF Returned(a)
                    THEN routeCallback(getById(users, a.val.id, "omitted"))
                    ELSE a)
    /\ UNCHANGED <<users, nextId, acl, txOpen, txUsers, txGranted, tokens, issued, cacheVars, calls>>

HttpBodies ==
    [username : Usernames, password : {"pw1", "pw2"}]
        \cup [username : Usernames, password : {"pw1"}, apiKey : {<<"a">>}]

NextHttp ==
    \/ \E body \in HttpBodies, salt \in Salts : PostUsers(body, salt)
    \/ \E body \in HttpBodies : PostAuth(body)
    \/ \E token \in {Jwt(c) : c \in tokens} \cup {ForgedJwt} : GetUsersMe(token)

SpecHttp == Init /\ [][NextHttp]_vars

\* C7: no response body sent by POST /users, GET /users/me or POST /auth and
\* no claims object signed into a JWT has a password or an apiKey field; a
\* 200 response of these routes is the safe view (with the token for /auth).
C7_NoSecretCrossesBoundary ==
    /\ \A c \in tokens : DOMAIN c = SafeFields
    /\ last.out.kind = "reply" =>
           /\ DOMAIN last.out.val \cap Secrets = {}
           /\ last.out.status = HttpStatusOK =>
                  /\ DOMAIN last.out.val \ {"token"} = SafeFields
                  /\ last.op = "POST /auth" => DOMAIN last.out.val.token.claims = SafeFields

C7_Witness ==
    /\ last.op = "GET /users/me"
    /\ last.out.kind = "reply"
    /\ last.out.status = HttpStatusOK
    /\ \E i \in DOMAIN users : users[i].apiKey # NULL

(***************************************************************************)
(* createRoute: the preHandler, the callback and the response schemas      *)
(***************************************************************************)
\* DEFAULT_ERRORS_SCHEMA, which enrichSchema puts into the response schema
\* of every route: the properties declared for each status.
DEFAULT_ERRORS_SCHEMA ==
    [s \in {HttpStatusUnauthorized, HttpStatusServerError} |->
        IF s = HttpStatusUnauthorized THEN {"error", "message"} ELSE {"error"}]

\* enrichSchema: the response schemas of a route are the default ones
\* overridden by those the route declares.
enrichSchema(response) ==
    [s \in DOMAIN DEFAULT_ERRORS_SCHEMA \cup DOMAIN response |->
        IF s \in DOMAIN response THEN response[s] ELSE DEFAULT_ERRORS_SCHEMA[s]]

\* reply.send(payload): the body written is the payload serialized by the
\* response schema of the status (properties the schema does not declare are
\* left out), or the whole payload for a status without a schema.
send(reply, response) ==
    IF reply.status \in DOMAIN response
    THEN Reply(reply.status,
               [f \in DOMAIN reply.val \cap response[reply.status] |-> reply.val[f]])
    ELSE reply

\* What a request gets: the response and how often the handler ran.
Served(reply, handler) ==
    [kind |-> "reply", status |-> reply.status, val |-> reply.val, handler |-> handler]

\* A request with a bearer token to a route made by createRoute({auth,
\* schema: {response}, handler}); o is how the handler ends when it is
\* called.  A reply sent by the preHandler ends the request before the
\* callback.
createRoute(auth, response, token, o) ==
    LET pre == IF auth THEN authenticate(token) ELSE Ret(Void) IN
    IF ~Returned(pre)
    THEN Served(send(pre, enrichSchema(response)), 0)
    ELSE Served(send(routeCallback(o), enrichSchema(response)), 1)

Route(auth, response, token, o) ==
    /\ last' = Call("route", [auth |-> auth, token |-> token, handler |-> o],
                    createRoute(auth, response, token, o))
    /\ UNCHANGED <<users, nextId, acl, txOpen, txUsers, txGranted, tokens, issued, cacheVars, calls>>

\* A route that declares no response schema.
NoResponseSchema == [s \in {} |-> {}]
\* GET /users/me: auth: true, a 200 schema, handler Users.getById(request.user.id).
UsersMeResponse == [s \in {HttpStatusOK} |-> {"id", "username"}]
UsersMe(token) ==
    Route(TRUE, UsersMeResponse, token,
          IF HasField(token.claims, "id")
          THEN getById(users, token.claims.id, "omitted")
          ELSE Ret(Void))

\* Bearer tokens: signed by this server for a user, signed by it with claims
\* that have no id, and not verifiable.
RouteTokens ==
    {Jwt([id |-> 1, username |-> "alice"]), Jwt([username |-> "alice"]), ForgedJwt}
\* Ends of a handler: a value, each KnownError without and with a message, a
\* Prisma error, another error.
Messages == {"", "User 1 does not have access to resource Project 1"}
HandlerOutcomes ==
    {Ret([id |-> 1, username |-> "alice"]), Ret(Void)}
        \cup {Known(c) : c \in ErrorCode}
        \cup {KnownError(c, m) : c \in ErrorCode, m \in Messages}
        \cup {Prisma(c) : c \in {"P2002", "P2025"}}
        \cup {Unclassified("data and hash arguments required")}

NextRoute ==
    \/ \E d \in AclCreateInputs : Create(d, 1)
    \/ \E token \in RouteTokens : UsersMe(token)
    \/ \E auth \in BOOLEAN, token \in RouteTokens, o \in HandlerOutcomes :
          Route(auth, NoResponseSchema, token, o)

SpecRoute == Init /\ [][NextRoute]_vars

\* The handler of the request was reached: the route has no preHandler or
\* the token passed it.
Reached(c) ==
    c.args.auth => (c.args.token.signed /\ HasField(c.args.token.claims, "id"))

\* C23: when the handler of a route made by createRoute throws a KnownError
\* with code c and message m, the handler has run once and the response is
\* 503 with error = c and message = m; when it throws another error, the
\* response is 503 with an error text that is no domain code.
C23_DomainErrorReachesBoundary ==
    (last.op = "route" /\ Reached(last) /\ ~Returned(last.args.handler)) =>
        LET o == last.args.handler IN
        /\ last.out.handler = 1
        /\ last.out.status = HttpStatusServerError
        /\ IF o.cls = "KnownError"
           THEN /\ last.out.val.error = o.val.code
                /\ HasField(last.out.val, "message")
                /\ last.out.val.message = IF HasField(o.val, "message") THEN o.val.message ELSE ""
           ELSE last.out.val.error \notin ErrorCode

\* C25: on a route with auth: true the handler runs, once, exactly when the
\* token verifies and its claims have an id; otherwise the response is 401
\* Unauthorized and the handler has not run.
C25_HandlerOnlyAfterAuth ==
    (last.op = "route" /\ last.args.auth) =>
        LET token == last.args.token
            ok == token.signed /\ HasField(token.claims, "id")
        IN /\ last.out.handler = (IF ok THEN 1 ELSE 0)
           /\ ok => last.out.status # HttpStatusUnauthorized
           /\ ~ok => /\ last.out.status = HttpStatusUnauthorized
                     /\ last.out.val = [error |-> "Unauthorized", message |-> "Unauthorized request"]

C25_Witness ==
    /\ last.op = "route"
    /\ last.args.auth
    /\ last.args.token.signed
    /\ ~HasField(last.args.token.claims, "id")
    /\ last.out.status = HttpStatusUnauthorized
    /\ last.out.handler = 0

(***************************************************************************)
(* Token cache: the bearer-auth hook and the route handler                 *)
(***************************************************************************)
\* A request arrives and options.auth runs up to its await: on a cache hit
\* it returns true and the handler runs, on a miss it reads the clock and
\* starts the verifier.
AuthStart(r, token) ==
    /\ reqs[r].pc = "idle"
    /\ token.signed => token.claims.iat * Second <= now
    /\ jwtCache' = checked(jwtCache, token, now)
    /\ IF has(jwtCache, token, now)
       THEN /\ reqs' = reqs
            /\ last' = Call("request", [token |-> token], Ret(routeHandler(jwtCache, token, now)))
       ELSE /\ reqs' = [reqs EXCEPT ![r] = [pc |-> "verifying", token |-> token, t0 |-> now]]
            /\ last' = Call("has", [token |-> token], Ret(Bool(FALSE)))
    /\ UNCHANGED <<users, nextId, acl, txOpen, txUsers, txGranted, tokens, issued, now, calls>>

\* options.auth resumes after the await: false makes the plugin reply 401,
\* true lets the handler run.
AuthFinish(r) ==
    /\ reqs[r].pc = "verifying"
    /\ LET a == authVerify(jwtCache, reqs[r].token, reqs[r].t0, now) IN
       /\ jwtCache' = a.cache
       /\ reqs' = [reqs EXCEPT ![r] = Idle]
       /\ last' = Call("request", [token |-> reqs[r].token],
                       Ret(IF a.out.val.bool
                           THEN routeHandler(a.cache, reqs[r].token, now)
                           ELSE Unauthorized))
    /\ UNCHANGED <<users, nextId, acl, txOpen, txUsers, txGranted, tokens, issued, now, calls>>

\* Time passes.
Tick ==
    /\ now < MaxSeconds * Second
    /\ now' = now + Second
    /\ last' = Call("tick", NoArgs, Ret(Void))
    /\ UNCHANGED <<users, nextId, acl, txOpen, txUsers, txGranted, tokens, issued, jwtCache, reqs, calls>>

\* Time passes until just after the livetime of a cache entry (once).
Sleep ==
    /\ now <= MaxSeconds * Second
    /\ \A r \in Requests : reqs[r].pc = "idle"
    /\ \E k \in DOMAIN jwtCache :
          /\ jwtCache[k].t # 0
          /\ jwtCache[k].t >= now
          /\ now' = jwtCache[k].t + 1
    /\ last' = Call("sleep", NoArgs, Ret(Void))
    /\ UNCHANGED <<users, nextId, acl, txOpen, txUsers, txGranted, tokens, issued, jwtCache, reqs, calls>>

CacheUsers == {[id |-> 1, username |-> "alice"]}
CacheTokens ==
    {SignedAt(u, iat) : u \in CacheUsers, iat \in Iats}
        \cup {Forged(u, 0) : u \in CacheUsers}

NextCache ==
    \/ \E r \in Requests, token \in CacheTokens : AuthStart(r, token)
    \/ \E r \in Requests : AuthFinish(r)
    \/ Tick
    \/ Sleep

SpecCache == Init /\ [][NextCache]_vars

\* The instant after which a token is no longer valid.
ValidUntil(token) == token.claims.iat * Second + AUTH_TTL

\* C16: every entry of the token cache has the token's expiry instant
\* (issued-at + AUTH_TTL) as its livetime, and no token is found in the cache
\* at a time later than that instant.
C16_EntryWithinValidityWindow ==
    \A k \in DOMAIN jwtCache :
        /\ jwtCache[k].t = ValidUntil(k)
        /\ has(jwtCache, k, now) => now <= ValidUntil(k)

\* C17: at every time and for every token issued by then, a request served
\* with the cache as it is has the same result of auth and hands the same
\* AuthSpec to the handler as the same request served with an empty cache.
C17_CacheIsOnlyAnOptimization ==
    \A token \in CacheTokens :
        (token.signed => token.claims.iat * Second <= now) =>
            request(jwtCache, token, now) = request(EmptyCache, token, now)

\* C18: when auth finishes after a cache miss it returns true exactly when
\* the verifier accepted the token and the clock it read was not past
\* issued-at + AUTH_TTL; on true the token is in the cache, on false the
\* cache is as it was; every token in the cache has a valid signature.
C18_MissVerifiesBeforeInsert ==
    [][\A r \in Requests :
          (reqs[r].pc = "verifying" /\ reqs'[r].pc # "verifying") =>
              LET token == reqs[r].token
                  ok == token.signed /\ reqs[r].t0 <= ValidUntil(token)
              IN /\ last'.op = "request"
                 /\ last'.out.val.auth = ok
                 /\ ok => token \in DOMAIN jwtCache' /\ jwtCache'[token].v = token.claims
                 /\ ~ok => jwtCache' = jwtCache
                 /\ \A k \in DOMAIN jwtCache' : k.signed]_vars

C18_Witness ==
    /\ last.op = "request"
    /\ ~last.out.val.auth
    /\ last.args.token.signed
    /\ \E k \in DOMAIN jwtCache : has(jwtCache, k, now)

\* C19: an entry that is in the cache and not expired is not written again:
\* no step changes its value or its livetime.
C19_WriteOncePerToken ==
    [][\A k \in DOMAIN jwtCache :
          (has(jwtCache, k, now) /\ k \in DOMAIN jwtCache') =>
              jwtCache'[k] = jwtCache[k]]_vars

====
